---------------------------- MODULE Spec2Model ----------------------------
(***************************************************************************)
(* Model of scraper.py (the route-driven collector): TrainDataCollector,   *)
(* its collect_data loop, process_vehicle_stops, the journey identifier    *)
(* and the top-level try/except/finally of __main__.                       *)
(*                                                                         *)
(* Conventions.                                                            *)
(*  - API timestamps and delays are whole seconds.  The wall clock         *)
(*    (datetime.now().timestamp(), a float) is counted in ticks of         *)
(*    1/TicksPerSec second, so that a clock value between two whole        *)
(*    seconds exists and int() of a clock value truncates.                 *)
(*  - A JSON field that int() is applied to is a record [k, v]:            *)
(*    k = "int" (a number or a numeric string, value v), k = "missing"     *)
(*    (key absent, .get returns the default), k = "bad" (a value int()     *)
(*    raises ValueError/TypeError on).                                     *)
(*  - strftime('%H:%M:%S') of datetime.fromtimestamp(t) is the second of   *)
(*    the local day, (t + tz) % 86400; '' is Blank.                        *)
(*  - The date and captured_at columns, which only format the clock, and   *)
(*    the console output are left out.                                     *)
(***************************************************************************)
EXTENDS Integers, Sequences, FiniteSets, TLC

VARIABLES
    pc,                        \* control position of __main__ / collect_data
    now,                       \* wall clock, in ticks
    tz,                        \* local UTC offset in seconds (fromtimestamp)
    current_time,              \* collect_data's local current_time (ticks)
    routes,                    \* train_routes with their trips (GTFS tables)
    r, t,                      \* position of the route and trip loops
    conns, ci,                 \* data['connection'] and the position in it
    vehicle_data,              \* result of the last fetch_vehicle_data
    processed_journeys,        \* self.processed_journeys
    total_processed,
    total_duplicates_skipped,
    rows,                      \* rows written to the CSV after the header
    csv_open,                  \* self.csv_file is open
    refs,                      \* who holds a reference to the collector
    exc,                       \* exception propagating at the top level
    result,                    \* last return of process_vehicle_stops
    connCallTime,              \* history: clock when fetch_connections ran
    pending,                   \* history: a vehicle fetch not yet followed by a sleep
    outcome,                   \* history: how the previous vehicle ended
    seenKeys,                  \* history: keys of the payloads fetched so far
    okKeys,                    \* history: keys whose processing returned True
    writers,                   \* history: <<journey id, call>> of calls that wrote rows
    fetches                    \* history: number of fetch_vehicle_data calls

vars == <<pc, now, tz, current_time, routes, r, t, conns, ci, vehicle_data,
          processed_journeys, total_processed, total_duplicates_skipped, rows,
          csv_open, refs, exc, result, connCallTime, pending, outcome,
          seenKeys, okKeys, writers, fetches>>

---------------------------------------------------------------------------
(* Bounds of the model *)

TicksPerSec == 2
MaxStops == 3
MaxNow == 9
MaxConns == 2

(* Program constants *)

SecondsPerMinute == 60
SecondsPerDay == 86400
TrainRouteType == 100
Blank == -1

Absent == "<absent>"
None == [kind |-> "None"]

Num(n) == [k |-> "int", v |-> n]
Missing == [k |-> "missing", v |-> 0]
Bad == [k |-> "bad", v |-> 0]

---------------------------------------------------------------------------
(* Pure helpers of process_vehicle_stops *)

\* int(stop.get(key, default)): the value, given that int() does not raise
IntOf(f, default) == IF f.k = "missing" THEN default ELSE f.v

\* int() raises on the field
Raises(f) == f.k = "bad"

\* int(x) of a clock value x in ticks: whole seconds, truncated
Truncate(ticks) == ticks \div TicksPerSec

\* name.replace('BE.NMBS.', ''): a name is a sequence of pieces, the prefix
\* being one piece; every occurrence of it is removed and the rest joined
RECURSIVE Join(_)
Join(s) == IF s = <<>> THEN "" ELSE Head(s) \o Join(Tail(s))

StripPrefix(name) ==
    LET NotPrefix(p) == p # "BE.NMBS." IN Join(SelectSeq(name, NotPrefix))

\* datetime.fromtimestamp(x).strftime('%H:%M:%S'), '' when the scheduled time is 0
ClockString(x, offset) == (x + offset) % SecondsPerDay

FormatTime(scheduled, x, offset) ==
    IF scheduled # 0 THEN ClockString(x, offset) ELSE Blank

\* a division that truncates toward zero, as int(delay / 60) would
MinutesTowardZero(d) ==
    IF d >= 0 THEN d \div SecondsPerMinute ELSE -((-d) \div SecondsPerMinute)

\* delay // 60
Minutes(d) == d \div SecondsPerMinute

\* the filter with <= for <
IsPastOrNow(stop, ct) ==
    IntOf(stop.scheduledDepartureTime, Truncate(ct + TicksPerSec)) * TicksPerSec <= ct

\* int(stop.get('scheduledDepartureTime', current_time + 1)) < current_time
IsPast(stop, ct) ==
    IntOf(stop.scheduledDepartureTime, Truncate(ct + TicksPerSec)) * TicksPerSec < ct

\* 1 if stop.get('canceled', '0') == '1' else 0
IsCancelled(stop) ==
    IF (IF stop.canceled = Absent THEN "0" ELSE stop.canceled) = "1" THEN 1 ELSE 0

\* position of the i-th of the n past stops (i counted from 1)
Position(i, n) ==
    IF i = 1 THEN "First" ELSE IF i = n THEN "Last" ELSE "Intermediate"

\* the int() conversions of one loop iteration raise
StopRaises(stop) ==
    \/ Raises(stop.scheduledArrivalTime)
    \/ Raises(stop.scheduledDepartureTime)
    \/ Raises(stop.arrivalDelay)
    \/ Raises(stop.departureDelay)

\* the row of the i-th of n past stops; src is the stop's index in the
\* vehicle's stop list (history, not a CSV column)
Row(vd, src, i, n, route_id, trip_id, offset) ==
    LET stop == vd.stops[src]
        scheduled_arrival == IntOf(stop.scheduledArrivalTime, 0)
        scheduled_departure == IntOf(stop.scheduledDepartureTime, 0)
        arrival_delay == IntOf(stop.arrivalDelay, 0)
        departure_delay == IntOf(stop.departureDelay, 0)
    IN  [src |-> src,
         route_id |-> route_id,
         trip_id |-> trip_id,
         train_id |-> StripPrefix(vd.name),
         train_type |-> vd.type,
         station_name |-> stop.station,
         station_position |-> Position(i, n),
         scheduled_arrival |-> FormatTime(scheduled_arrival, scheduled_arrival, offset),
         actual_arrival |->
             FormatTime(scheduled_arrival, scheduled_arrival + arrival_delay, offset),
         arrival_delay |-> Minutes(arrival_delay),
         scheduled_departure |->
             FormatTime(scheduled_departure, scheduled_departure, offset),
         actual_departure |->
             FormatTime(scheduled_departure, scheduled_departure + departure_delay, offset),
         departure_delay |-> Minutes(departure_delay),
         platform |-> IF stop.platform = Absent THEN "unknown" ELSE stop.platform,
         is_cancelled |-> IsCancelled(stop)]

\* indices (in the vehicle's list) of the stops the filter keeps
PastStops(vd, ct) ==
    LET Keep(i) == IsPast(vd.stops[i], ct)
    IN  SelectSeq([i \in 1..Len(vd.stops) |-> i], Keep)

\* rows written by the loop from the i-th past stop on, up to the first
\* iteration that raises
RECURSIVE WriteRows(_, _, _, _, _, _)
WriteRows(vd, past, i, route_id, trip_id, offset) ==
    IF i > Len(past) THEN [rows |-> <<>>, ok |-> TRUE]
    ELSE IF StopRaises(vd.stops[past[i]]) THEN [rows |-> <<>>, ok |-> FALSE]
    ELSE LET rest == WriteRows(vd, past, i + 1, route_id, trip_id, offset)
         IN  [rows |-> <<Row(vd, past[i], i, Len(past), route_id, trip_id, offset)>>
                        \o rest.rows,
              ok |-> rest.ok]

\* process_vehicle_stops(vehicle_data, route_id, trip_id) at clock ct:
\* the rows it writes and its return value
process_vehicle_stops(vd, route_id, trip_id, ct, offset) ==
    IF vd.kind # "dict" THEN [rows |-> <<>>, ok |-> FALSE]
    ELSE IF ~vd.stops_is_dict THEN [rows |-> <<>>, ok |-> FALSE]
    ELSE IF vd.stops = <<>> THEN [rows |-> <<>>, ok |-> FALSE]
    ELSE IF \E i \in 1..Len(vd.stops) : Raises(vd.stops[i].scheduledDepartureTime)
         THEN [rows |-> <<>>, ok |-> FALSE]
    ELSE WriteRows(vd, PastStops(vd, ct), 1, route_id, trip_id, offset)

---------------------------------------------------------------------------
(* Journey identifier *)

\* the five inputs of the identifier, for a payload that has them
Key(vd) ==
    <<StripPrefix(vd.name), vd.type, vd.stops[1].station,
      vd.stops[Len(vd.stops)].station,
      IntOf(vd.stops[1].scheduledDepartureTime, 0)>>

HasKey(vd) ==
    /\ vd.kind = "dict"
    /\ vd.stops_is_dict
    /\ vd.stops # <<>>
    /\ ~Raises(vd.stops[1].scheduledDepartureTime)

\* hashlib.md5(s.encode()).hexdigest(): a function of the string alone,
\* taken to have no collision on the strings of the model
Md5(s) == [kind |-> "md5", hexdigest |-> s]

JourneyString(train_id, train_type, first_stop, last_stop, departure) ==
    train_id \o "_" \o train_type \o "_" \o first_stop \o "_" \o last_stop
             \o "_" \o ToString(departure)

\* an identifier built on the first departure as delayed, not as scheduled
generate_journey_identifier_with_delay(vd) ==
    IF ~HasKey(vd) THEN None
    ELSE Md5(JourneyString(StripPrefix(vd.name), vd.type, vd.stops[1].station,
                           vd.stops[Len(vd.stops)].station,
                           IntOf(vd.stops[1].scheduledDepartureTime, 0)
                             + IntOf(vd.stops[1].departureDelay, 0)))

\* generate_journey_identifier(vehicle_data); None when it gives up or raises
generate_journey_identifier(vd) ==
    IF vd.kind # "dict" THEN None
    ELSE IF ~vd.stops_is_dict THEN None
    ELSE IF vd.stops = <<>> THEN None
    ELSE IF Raises(vd.stops[1].scheduledDepartureTime) THEN None
    ELSE Md5(JourneyString(StripPrefix(vd.name), vd.type, vd.stops[1].station,
                           vd.stops[Len(vd.stops)].station,
                           IntOf(vd.stops[1].scheduledDepartureTime, 0)))

---------------------------------------------------------------------------
(* Inputs: GTFS tables, API responses *)

Stop(station, departure, arrival, arrival_delay, departure_delay) ==
    [station |-> station,
     scheduledDepartureTime |-> departure,
     scheduledArrivalTime |-> arrival,
     arrivalDelay |-> arrival_delay,
     departureDelay |-> departure_delay,
     canceled |-> "0", arrivalCanceled |-> "0", departureCanceled |-> "0",
     platform |-> "1"]

Vehicle(name, stops) ==
    [kind |-> "dict", name |-> name, type |-> "IC", stops_is_dict |-> TRUE,
     stops |-> stops]

\* vehicle payloads of the run: a journey whose last stop lies ahead, the same
\* journey with another delay, with a stop whose delay is not a number, with a
\* stop whose scheduled departure is not a number, and another journey
Payloads ==
    { Vehicle(<<"BE.NMBS.", "IC501">>,
              <<Stop("A", Num(1), Missing, Num(0), Num(0)),
                Stop("B", Num(2), Num(2), Num(0), Num(0)),
                Stop("C", Num(4), Num(4), Num(0), Num(0))>>),
      Vehicle(<<"IC501">>,
              <<Stop("A", Num(1), Missing, Num(0), Num(90)),
                Stop("C", Num(4), Num(4), Num(-30), Num(0))>>),
      Vehicle(<<"BE.NMBS.", "IC501">>,
              <<Stop("A", Num(1), Missing, Num(0), Num(0)),
                Stop("B", Num(1), Num(1), Bad, Num(0)),
                Stop("C", Num(4), Num(4), Num(0), Num(0))>>),
      Vehicle(<<"BE.NMBS.", "IC501">>,
              <<Stop("A", Num(1), Missing, Num(0), Num(0)),
                Stop("C", Bad, Num(4), Num(0), Num(0))>>),
      Vehicle(<<"BE.NMBS.", "P7">>,
              <<Stop("D", Num(1), Num(1), Num(0), Num(0))>>) }

\* what the vehicle endpoint can answer: a request error, a body that is not
\* JSON, or JSON (a payload, {}, a list, stops that are no dict or are empty)
VehicleResponses ==
    { [status |-> "http_error"], [status |-> "network_error"],
      [status |-> "malformed_json"] }
    \cup { [status |-> "ok", data |-> p] : p \in Payloads }
    \cup { [status |-> "ok", data |-> [kind |-> "empty"]],
           [status |-> "ok", data |-> [kind |-> "list"]],
           [status |-> "ok", data |-> Vehicle(<<"IC9">>, <<>>)] }

\* a connection: conn['departure'] may be missing, the vehicle may be
\* missing, the departure time is a number of seconds
Connections ==
    { [has_departure |-> FALSE, time |-> Missing, vehicle |-> Absent],
      [has_departure |-> TRUE, time |-> Num(1), vehicle |-> "BE.NMBS.IC501"],
      [has_departure |-> TRUE, time |-> Num(1), vehicle |-> Absent],
      [has_departure |-> TRUE, time |-> Num(2), vehicle |-> "BE.NMBS.P7"] }

RECURSIVE SeqsUpTo(_, _)
SeqsUpTo(S, n) ==
    IF n = 0 THEN {<<>>}
    ELSE LET shorter == SeqsUpTo(S, n - 1)
         IN  shorter \cup { Append(s, x) : s \in shorter, x \in S }

\* what the connections endpoint can answer: a request error (None), a
\* dict without 'connection', or a dict with a list of connections
ConnectionResponses ==
    { [status |-> "error"], [status |-> "no_connection_key"] }
    \cup { [status |-> "ok", connection |-> c] : c \in SeqsUpTo(Connections, MaxConns) }

Route(id, type, has_dash, trips) ==
    [route_id |-> id, route_type |-> type, has_dash |-> has_dash, trips |-> trips]

\* routes.txt joined with trips.txt
RouteTables ==
    { <<Route("R1", TrainRouteType, TRUE, <<"T1", "T2">>)>>,
      <<Route("R1", TrainRouteType, TRUE, <<"T1">>),
        Route("R2", TrainRouteType, TRUE, <<"T2">>)>>,
      <<Route("B1", 3, TRUE, <<"T0">>),
        Route("R1", TrainRouteType, FALSE, <<"T1">>),
        Route("R2", TrainRouteType, TRUE, <<>>),
        Route("R3", TrainRouteType, TRUE, <<"T3">>)>> }

\* self.routes_df[self.routes_df['route_type'] == 100]
TrainRoutes(table) ==
    LET IsTrain(x) == x.route_type = TrainRouteType IN SelectSeq(table, IsTrain)

---------------------------------------------------------------------------
(* fetch_vehicle_data, fetch_connections, __del__ *)

\* fetch_vehicle_data with an except clause that lets the error of json() through
fetch_vehicle_data_json_uncaught(resp) ==
    IF resp.status = "ok" THEN [raised |-> FALSE, value |-> resp.data]
    ELSE IF resp.status = "malformed_json" THEN [raised |-> TRUE, value |-> None]
    ELSE [raised |-> FALSE, value |-> None]

\* fetch_vehicle_data: raise_for_status and json() raise subclasses of
\* requests.exceptions.RequestException (requests.exceptions.JSONDecodeError
\* included, requests 2.27 and later), which the except clause turns into None
fetch_vehicle_data(resp) ==
    IF resp.status = "ok" THEN [raised |-> FALSE, value |-> resp.data]
    ELSE [raised |-> FALSE, value |-> None]

\* `if vehicle_data:`
Truthy(vd) == vd.kind \notin {"None", "empty"}

\* `not data or 'connection' not in data`
NoConnections(resp) == resp.status # "ok"

\* a __del__ that does not close the file
DelLeavesOpen(open) == open

\* __del__: closes the file
Del(open) == FALSE

\* a reference to the collector is dropped: CPython runs __del__ when none is left
Release(left, open) == IF left = {} THEN Del(open) ELSE open

\* the lookups and int() of lines 335-339 raise
ConnectionRaises(conn) == ~conn.has_departure \/ Raises(conn.time)

\* `departure_time >= current_time`, current_time being the clock value read
\* when collect_data started
IsFuture(conn, start) == IntOf(conn.time, 0) * TicksPerSec >= start

---------------------------------------------------------------------------
(* The run *)

InLoop == pc \in {"route", "trip", "conn", "fetched", "sleep"}

route == TrainRoutes(routes)[r]

Init ==
    /\ pc = "main"
    /\ now \in 3..4
    /\ tz = 3600
    /\ current_time = 0
    /\ routes \in RouteTables
    /\ r = 1 /\ t = 1
    /\ conns = <<>> /\ ci = 1
    /\ vehicle_data = None
    /\ processed_journeys = {}
    /\ total_processed = 0
    /\ total_duplicates_skipped = 0
    /\ rows = <<>>
    /\ csv_open = TRUE
    /\ refs = {"collector"}
    /\ exc = "none"
    /\ result = [rows |-> <<>>, ok |-> FALSE]
    /\ connCallTime = 0
    /\ pending = FALSE
    /\ outcome = "none"
    /\ seenKeys = {}
    /\ okKeys = {}
    /\ writers = {}
    /\ fetches = 0

\* collector.collect_data() is entered: lines 308-312
CollectData ==
    /\ pc = "main"
    /\ pc' = "route"
    /\ current_time' = now
    /\ refs' = refs \cup {"self"}
    /\ UNCHANGED <<now, tz, routes, r, t, conns, ci, vehicle_data,
                   processed_journeys, total_processed, total_duplicates_skipped,
                   rows, csv_open, exc, result, connCallTime, pending, outcome,
                   seenKeys, okKeys, writers, fetches>>

\* head of `for _, route in train_routes.iterrows()`; after the last route
\* collect_data returns and its frame lets go of self
NextRoute ==
    /\ pc = "route"
    /\ IF r <= Len(TrainRoutes(routes))
       THEN /\ pc' = "trip"
            /\ t' = 1
            /\ refs' = refs
       ELSE /\ pc' = "finally"
            /\ t' = t
            /\ refs' = refs \ {"self"}
    /\ UNCHANGED <<now, tz, current_time, routes, r, conns, ci, vehicle_data,
                   processed_journeys, total_processed, total_duplicates_skipped,
                   rows, csv_open, exc, result, connCallTime, pending, outcome,
                   seenKeys, okKeys, writers, fetches>>

\* the trips of the route are exhausted: lines 360-361
EndRoute ==
    /\ pc = "trip"
    /\ t > Len(route.trips)
    /\ pc' = "route"
    /\ r' = r + 1
    /\ UNCHANGED <<now, tz, current_time, routes, t, conns, ci, vehicle_data,
                   processed_journeys, total_processed, total_duplicates_skipped,
                   rows, csv_open, refs, exc, result, connCallTime, pending,
                   outcome, seenKeys, okKeys, writers, fetches>>

\* a trip of a route whose long name holds no '--': line 322
TripWithoutStations ==
    /\ pc = "trip"
    /\ t <= Len(route.trips)
    /\ ~route.has_dash
    /\ t' = t + 1
    /\ UNCHANGED <<pc, now, tz, current_time, routes, r, conns, ci, vehicle_data,
                   processed_journeys, total_processed, total_duplicates_skipped,
                   rows, csv_open, refs, exc, result, connCallTime, pending,
                   outcome, seenKeys, okKeys, writers, fetches>>

\* fetch_connections for a trip: lines 329-331
FetchConnections ==
    /\ pc = "trip"
    /\ t <= Len(route.trips)
    /\ route.has_dash
    /\ \E resp \in ConnectionResponses :
        /\ connCallTime' = now
        /\ IF NoConnections(resp)
           THEN /\ t' = t + 1
                /\ UNCHANGED <<pc, conns, ci>>
           ELSE /\ pc' = "conn"
                /\ conns' = resp.connection
                /\ ci' = 1
                /\ t' = t
    /\ UNCHANGED <<now, tz, current_time, routes, r, vehicle_data,
                   processed_journeys, total_processed, total_duplicates_skipped,
                   rows, csv_open, refs, exc, result, pending, outcome,
                   seenKeys, okKeys, writers, fetches>>

\* the connections of the trip are exhausted
EndConnections ==
    /\ pc = "conn"
    /\ ci > Len(conns)
    /\ pc' = "trip"
    /\ t' = t + 1
    /\ UNCHANGED <<now, tz, current_time, routes, r, conns, ci, vehicle_data,
                   processed_journeys, total_processed, total_duplicates_skipped,
                   rows, csv_open, refs, exc, result, connCallTime, pending,
                   outcome, seenKeys, okKeys, writers, fetches>>

\* a connection without 'departure' or with a time int() rejects: the
\* exception leaves collect_data
MalformedConnection ==
    /\ pc = "conn"
    /\ ci <= Len(conns)
    /\ ConnectionRaises(conns[ci])
    /\ pc' = "except"
    /\ exc' = "Exception"
    /\ UNCHANGED <<now, tz, current_time, routes, r, t, conns, ci, vehicle_data,
                   processed_journeys, total_processed, total_duplicates_skipped,
                   rows, csv_open, refs, result, connCallTime, pending,
                   outcome, seenKeys, okKeys, writers, fetches>>

\* lines 335-340: a future connection, or one without a vehicle, is passed over
SkipConnection ==
    /\ pc = "conn"
    /\ ci <= Len(conns)
    /\ ~ConnectionRaises(conns[ci])
    /\ IsFuture(conns[ci], current_time) \/ conns[ci].vehicle = Absent
    /\ ci' = ci + 1
    /\ UNCHANGED <<pc, now, tz, current_time, routes, r, t, conns, vehicle_data,
                   processed_journeys, total_processed, total_duplicates_skipped,
                   rows, csv_open, refs, exc, result, connCallTime, pending,
                   outcome, seenKeys, okKeys, writers, fetches>>

\* line 341: fetch_vehicle_data
FetchVehicle ==
    /\ pc = "conn"
    /\ ci <= Len(conns)
    /\ ~ConnectionRaises(conns[ci])
    /\ ~IsFuture(conns[ci], current_time)
    /\ conns[ci].vehicle # Absent
    /\ \E resp \in VehicleResponses :
        /\ vehicle_data' = fetch_vehicle_data(resp).value
        /\ IF fetch_vehicle_data(resp).raised
           THEN pc' = "except" /\ exc' = "Exception"
           ELSE pc' = "fetched" /\ exc' = exc
    /\ pending' = TRUE
    /\ fetches' = fetches + 1
    /\ UNCHANGED <<now, tz, current_time, routes, r, t, conns, ci,
                   processed_journeys, total_processed, total_duplicates_skipped,
                   rows, csv_open, refs, result, connCallTime,
                   outcome, seenKeys, okKeys, writers>>

\* line 342 is false: nothing to process
NoVehicleData ==
    /\ pc = "fetched"
    /\ ~Truthy(vehicle_data)
    /\ pc' = "sleep"
    /\ outcome' = "fetch_failed"
    /\ UNCHANGED <<now, tz, current_time, routes, r, t, conns, ci, vehicle_data,
                   processed_journeys, total_processed, total_duplicates_skipped,
                   rows, csv_open, refs, exc, result, connCallTime, pending,
                   seenKeys, okKeys, writers, fetches>>

\* lines 344-350: the journey is in processed_journeys; `continue`
SkipDuplicate ==
    /\ pc = "fetched"
    /\ Truthy(vehicle_data)
    /\ generate_journey_identifier(vehicle_data) \in processed_journeys
    /\ total_duplicates_skipped' = total_duplicates_skipped + 1
    /\ pc' = "conn"
    /\ ci' = ci + 1
    /\ outcome' = "duplicate"
    /\ seenKeys' = seenKeys \cup {Key(vehicle_data)}
    /\ UNCHANGED <<now, tz, current_time, routes, r, t, conns, vehicle_data,
                   processed_journeys, total_processed,
                   rows, csv_open, refs, exc, result, connCallTime, pending,
                   okKeys, writers, fetches>>

\* lines 352-356: process_vehicle_stops, and the journey recorded when it
\* returned True
ProcessVehicle ==
    /\ pc = "fetched"
    /\ Truthy(vehicle_data)
    /\ generate_journey_identifier(vehicle_data) \notin processed_journeys
    /\ LET journey_id == generate_journey_identifier(vehicle_data)
           res == process_vehicle_stops(vehicle_data, route.route_id, route.trips[t],
                                      now, tz)
       IN  /\ result' = res
           /\ rows' = rows \o res.rows
           /\ processed_journeys' =
                 IF res.ok THEN processed_journeys \cup {journey_id}
                 ELSE processed_journeys
           /\ total_processed' = IF res.ok THEN total_processed + 1 ELSE total_processed
           /\ outcome' = IF res.ok THEN "processed" ELSE "process_failed"
           /\ seenKeys' = IF HasKey(vehicle_data)
                          THEN seenKeys \cup {Key(vehicle_data)} ELSE seenKeys
           /\ okKeys' = IF res.ok THEN okKeys \cup {Key(vehicle_data)} ELSE okKeys
           /\ writers' = IF res.rows # <<>>
                         THEN writers \cup {<<journey_id, fetches>>} ELSE writers
    /\ pc' = "sleep"
    /\ UNCHANGED <<now, tz, current_time, routes, r, t, conns, ci, vehicle_data,
                   total_duplicates_skipped, csv_open, refs, exc, connCallTime,
                   pending, fetches>>

\* line 358: time.sleep(1), then the next connection
Sleep ==
    /\ pc = "sleep"
    /\ now + TicksPerSec <= MaxNow
    /\ now' = now + TicksPerSec
    /\ pending' = FALSE
    /\ pc' = "conn"
    /\ ci' = ci + 1
    /\ UNCHANGED <<tz, current_time, routes, r, t, conns, vehicle_data,
                   processed_journeys, total_processed, total_duplicates_skipped,
                   rows, csv_open, refs, exc, result, connCallTime,
                   outcome, seenKeys, okKeys, writers, fetches>>

\* Ctrl-C while collect_data runs: KeyboardInterrupt is no Exception, so no
\* except clause of the program takes it; its traceback keeps the frame of
\* collect_data, and with it self, alive
KeyboardInterrupt ==
    /\ InLoop
    /\ pc' = "finally"
    /\ exc' = "KeyboardInterrupt"
    /\ UNCHANGED <<now, tz, current_time, routes, r, t, conns, ci, vehicle_data,
                   processed_journeys, total_processed, total_duplicates_skipped,
                   rows, csv_open, refs, result, connCallTime, pending,
                   outcome, seenKeys, okKeys, writers, fetches>>

\* lines 372-373: `except Exception as e`; leaving the clause deletes e, and
\* the traceback with the frame of collect_data goes with it
ExceptClause ==
    /\ pc = "except"
    /\ pc' = "finally"
    /\ exc' = "none"
    /\ refs' = refs \ {"self"}
    /\ UNCHANGED <<now, tz, current_time, routes, r, t, conns, ci, vehicle_data,
                   processed_journeys, total_processed, total_duplicates_skipped,
                   rows, csv_open, result, connCallTime, pending,
                   outcome, seenKeys, okKeys, writers, fetches>>

\* lines 374-375: `del collector` unbinds the name
FinallyClause ==
    /\ pc = "finally"
    /\ pc' = "end"
    /\ refs' = refs \ {"collector"}
    /\ csv_open' = Release(refs \ {"collector"}, csv_open)
    /\ UNCHANGED <<now, tz, current_time, routes, r, t, conns, ci, vehicle_data,
                   processed_journeys, total_processed, total_duplicates_skipped,
                   rows, exc, result, connCallTime, pending,
                   outcome, seenKeys, okKeys, writers, fetches>>

\* the interpreter ends: an unhandled KeyboardInterrupt is reported, then
\* finalization drops what is left (the traceback kept in sys.last_traceback)
InterpreterExit ==
    /\ pc = "end"
    /\ pc' = "exited"
    /\ refs' = {}
    /\ csv_open' = IF refs # {} THEN Release({}, csv_open) ELSE csv_open
    /\ UNCHANGED <<now, tz, current_time, routes, r, t, conns, ci, vehicle_data,
                   processed_journeys, total_processed, total_duplicates_skipped,
                   rows, exc, result, connCallTime, pending,
                   outcome, seenKeys, okKeys, writers, fetches>>

Next ==
    \/ CollectData
    \/ NextRoute
    \/ EndRoute
    \/ TripWithoutStations
    \/ FetchConnections
    \/ EndConnections
    \/ MalformedConnection
    \/ SkipConnection
    \/ FetchVehicle
    \/ NoVehicleData
    \/ SkipDuplicate
    \/ ProcessVehicle
    \/ Sleep
    \/ KeyboardInterrupt
    \/ ExceptClause
    \/ FinallyClause
    \/ InterpreterExit

Spec == Init /\ [][Next]_vars

---------------------------------------------------------------------------
(* process_vehicle_stops on its own: a stop list is put together from    *)
(* StopDomain and the function applied to it.                            *)

Flagged(stop, general, arrival, departure) ==
    [stop EXCEPT !.canceled = general, !.arrivalCanceled = arrival,
                 !.departureCanceled = departure]

\* stops that differ in the scheduled departure, in the three cancellation
\* flags, and in the arrival time and the delays
StopDomain ==
    { Stop("T", d, Num(1), Num(0), Num(0)) :
         d \in {Num(0), Num(1), Num(2), Num(3), Missing, Bad} }
    \cup { Flagged(Stop("F", Num(1), Num(1), Num(0), Num(0)), f[1], f[2], f[3]) :
         f \in { <<"1", "0", "0">>, <<"0", "1", "0">>, <<"0", "0", "1">>,
                 <<Absent, Absent, Absent>> } }
    \cup { Stop("D", Num(1), f[1], f[2], f[3]) :
         f \in { <<Num(86399), Num(90), Num(-30)>>, <<Missing, Num(120), Num(-60)>>,
                 <<Num(0), Num(59), Num(-61)>>, <<Num(1), Bad, Num(0)>>,
                 <<Num(1), Num(-1), Bad>>, <<Bad, Num(0), Num(0)>> } }

InitStops ==
    /\ pc = "build"
    /\ now \in 4..5
    /\ tz \in {0, 3600}
    /\ vehicle_data = Vehicle(<<"BE.NMBS.", "IC501">>, <<>>)
    /\ result = [rows |-> <<>>, ok |-> FALSE]
    /\ current_time = 0
    /\ routes = <<>>
    /\ r = 1 /\ t = 1
    /\ conns = <<>> /\ ci = 1
    /\ processed_journeys = {}
    /\ total_processed = 0
    /\ total_duplicates_skipped = 0
    /\ rows = <<>>
    /\ csv_open = TRUE
    /\ refs = {"collector"}
    /\ exc = "none"
    /\ connCallTime = 0
    /\ pending = FALSE
    /\ outcome = "none"
    /\ seenKeys = {}
    /\ okKeys = {}
    /\ writers = {}
    /\ fetches = 0

\* a stop may follow the stops of a list: scheduled departures do not go back
Chronological(stops, s) ==
    \/ s.scheduledDepartureTime.k # "int"
    \/ \A i \in 1..Len(stops) :
          stops[i].scheduledDepartureTime.k = "int"
             => stops[i].scheduledDepartureTime.v <= s.scheduledDepartureTime.v

\* the API's stop list grows by one stop
AddStop ==
    /\ pc = "build"
    /\ Len(vehicle_data.stops) < MaxStops
    /\ \E s \in StopDomain :
         /\ Chronological(vehicle_data.stops, s)
         /\ vehicle_data' = [vehicle_data EXCEPT !.stops = Append(@, s)]
    /\ UNCHANGED <<pc, now, tz, current_time, routes, r, t, conns, ci,
                   processed_journeys, total_processed, total_duplicates_skipped,
                   rows, csv_open, refs, exc, result, connCallTime, pending,
                   outcome, seenKeys, okKeys, writers, fetches>>

\* process_vehicle_stops(vehicle_data, "R1", "T1") at the clock value now
ApplyProcessVehicleStops ==
    /\ pc = "build"
    /\ pc' = "processed"
    /\ result' = process_vehicle_stops(vehicle_data, "R1", "T1", now, tz)
    /\ rows' = rows \o result'.rows
    /\ UNCHANGED <<now, tz, current_time, routes, r, t, conns, ci, vehicle_data,
                   processed_journeys, total_processed, total_duplicates_skipped,
                   csv_open, refs, exc, connCallTime, pending,
                   outcome, seenKeys, okKeys, writers, fetches>>

NextStops == AddStop \/ ApplyProcessVehicleStops

SpecStops == InitStops /\ [][NextStops]_vars

---------------------------------------------------------------------------
(* Properties of collect_data and of __main__, under Spec *)

\* a step out of collect_data's loop body that is not an interrupt
StaysInLoop == pc' \in {"conn", "sleep"}

\* the step taken from "fetched" is the duplicate branch: nothing is
\* processed or written, the counter goes up by one
TakesSkip ==
    /\ pc' = "conn"
    /\ outcome' = "duplicate"
    /\ rows' = rows
    /\ writers' = writers
    /\ processed_journeys' = processed_journeys
    /\ total_duplicates_skipped' = total_duplicates_skipped + 1

\* C1 as stated: a payload whose five inputs equal those of a payload fetched
\* earlier in the run is skipped (not processed, no row, counter + 1).
C1_AsStated ==
    [][(/\ pc = "fetched"
        /\ HasKey(vehicle_data)
        /\ Key(vehicle_data) \in seenKeys
        /\ StaysInLoop) => TakesSkip]_vars

\* C1 amended: a payload whose five inputs equal those of an earlier payload
\* for which process_vehicle_stops returned True is skipped (not processed,
\* no row, counter + 1).
C1_SkipsProcessedJourney ==
    [][(/\ pc = "fetched"
        /\ HasKey(vehicle_data)
        /\ Key(vehicle_data) \in okKeys
        /\ StaysInLoop) => TakesSkip]_vars

\* a second payload of a processed journey, with another name spelling, stop
\* count and delay, has just been skipped
C1_Witness ==
    /\ outcome = "duplicate"
    /\ pc = "conn"
    /\ rows # <<>>
    /\ vehicle_data.name = <<"IC501">>
    /\ Key(vehicle_data) \in okKeys

\* C4 as stated: a well-formed connection with a vehicle is fetched if and only
\* if it departs before the clock value at which fetch_connections was called.
C4_AsStated ==
    /\ [](pc = "fetched" => IntOf(conns[ci].time, 0) * TicksPerSec < connCallTime)
    /\ [][(/\ pc = "conn" /\ pc' = "conn" /\ ci' = ci + 1
           /\ ~ConnectionRaises(conns[ci])
           /\ conns[ci].vehicle # Absent)
          => ~(IntOf(conns[ci].time, 0) * TicksPerSec < connCallTime)]_vars

\* C5 as stated: no vehicle is fetched while an earlier fetch has not been
\* followed by a sleep.
C5_AsStated ==
    [][(pc = "conn" /\ fetches' = fetches + 1) => ~pending]_vars

\* the vehicle in hand fails: nothing usable was fetched, or processing it
\* returns False
VehicleFails ==
    /\ pc = "fetched"
    /\ \/ ~Truthy(vehicle_data)
       \/ /\ generate_journey_identifier(vehicle_data) \notin processed_journeys
          /\ ~process_vehicle_stops(vehicle_data, route.route_id, route.trips[t],
                                  now, tz).ok

\* C6: a failed vehicle fetch raises nothing (only a malformed connection makes
\* collect_data raise); a vehicle that fails is not recorded and the loop goes
\* to the sleep and from there to the next connection of the same trip.
C6_FailureDoesNotStopLoop ==
    [][/\ (pc = "conn" /\ pc' = "except") => ConnectionRaises(conns[ci])
       /\ (VehicleFails /\ pc' # "finally")
             => /\ pc' = "sleep"
                /\ processed_journeys' = processed_journeys
                /\ total_processed' = total_processed
                /\ <<r, t, conns, ci>>' = <<r, t, conns, ci>>
       /\ (pc = "sleep" /\ pc' # "finally")
             => /\ pc' = "conn"
                /\ ci' = ci + 1
                /\ <<r, t, conns>>' = <<r, t, conns>>]_vars

\* after a vehicle whose processing failed, the next connection's vehicle has
\* been fetched
C6_Witness ==
    /\ pc = "fetched"
    /\ outcome = "process_failed"
    /\ ci = 2
    /\ processed_journeys = {}

C10_AsStated ==
    \A a \in writers, b \in writers : a[1] = b[1] => a[2] = b[2]

---------------------------------------------------------------------------
(* Properties of process_vehicle_stops, under SpecStops *)

Processed == pc = "processed"

RowIndices == 1..Len(result.rows)

SourceStop(k) == vehicle_data.stops[result.rows[k].src]

\* the labels the claim gives the stop at position i of a list of n stops; a
\* single stop, being both boundaries, may carry either boundary label
LabelsByIndex(i, n) ==
    (IF i = 1 THEN {"First"} ELSE {})
    \cup (IF i = n THEN {"Last"} ELSE {})
    \cup (IF 1 < i /\ i < n THEN {"Intermediate"} ELSE {})

\* every stop of the list has a scheduled departure
WellFormedStops ==
    \A i \in 1..Len(vehicle_data.stops) :
        vehicle_data.stops[i].scheduledDepartureTime.k = "int"

\* C2 as stated, for a list whose stops all have a scheduled departure and for
\* the stops that get a row: the row's position is "First" exactly for index 0
\* of the vehicle's stop list, "Last" exactly for index N-1, "Intermediate"
\* otherwise, and no two rows are both "First" or both "Last".
C2_AsStated ==
    (Processed /\ WellFormedStops) =>
        /\ \A k \in RowIndices :
              result.rows[k].station_position
                 \in LabelsByIndex(result.rows[k].src, Len(vehicle_data.stops))
        /\ \A k \in RowIndices, m \in RowIndices :
              (/\ result.rows[k].station_position = result.rows[m].station_position
               /\ result.rows[k].station_position # "Intermediate") => k = m

\* C3 as stated: is_cancelled is 1 exactly when one of the stop's three flags
\* is set.
C3_AsStated ==
    Processed =>
        \A k \in RowIndices :
            result.rows[k].is_cancelled = 1
               <=> \/ SourceStop(k).canceled = "1"
                   \/ SourceStop(k).arrivalCanceled = "1"
                   \/ SourceStop(k).departureCanceled = "1"

\* C7: every row comes from a stop that has a scheduled departure, and that
\* departure is strictly before the clock value read by the call.
C7_RowsOnlyForPastStops ==
    Processed =>
        \A k \in RowIndices :
            /\ SourceStop(k).scheduledDepartureTime.k = "int"
            /\ SourceStop(k).scheduledDepartureTime.v * TicksPerSec < now

\* a list with a past stop, a stop departing at this very second and a stop
\* without scheduled departure: one row
C7_Witness ==
    /\ Processed
    /\ Len(result.rows) = 1
    /\ Len(vehicle_data.stops) = 3
    /\ \E i \in 1..3 : vehicle_data.stops[i].scheduledDepartureTime = Missing
    /\ \E i \in 1..3 :
          /\ vehicle_data.stops[i].scheduledDepartureTime.k = "int"
          /\ vehicle_data.stops[i].scheduledDepartureTime.v * TicksPerSec \in {now, now - 1}

\* the two clock columns differ by the delay, on the clock of the day
DiffersBy(actual, scheduled, delay) ==
    /\ actual \in 0..(SecondsPerDay - 1)
    /\ scheduled \in 0..(SecondsPerDay - 1)
    /\ (actual - scheduled - delay) % SecondsPerDay = 0

\* the same, an empty scheduled column with no delay and an empty actual
\* column counting as equal
ActualIsScheduledPlus(actual, scheduled, delay) ==
    \/ DiffersBy(actual, scheduled, delay)
    \/ scheduled = Blank /\ actual = Blank /\ delay = 0

\* q is the delay floor-divided by 60
IsFloorMinutes(q, delay) ==
    SecondsPerMinute * q <= delay /\ delay < SecondsPerMinute * (q + 1)

DelaysFloored(k) ==
    /\ IsFloorMinutes(result.rows[k].arrival_delay, IntOf(SourceStop(k).arrivalDelay, 0))
    /\ IsFloorMinutes(result.rows[k].departure_delay, IntOf(SourceStop(k).departureDelay, 0))

\* C9 as stated: in every row the actual arrival (departure) is the scheduled
\* one plus the arrival (departure) delay, and the written delays are the
\* delays floor-divided by 60.
C9_AsStated ==
    Processed =>
        \A k \in RowIndices :
            /\ ActualIsScheduledPlus(result.rows[k].actual_arrival,
                                     result.rows[k].scheduled_arrival,
                                     IntOf(SourceStop(k).arrivalDelay, 0))
            /\ ActualIsScheduledPlus(result.rows[k].actual_departure,
                                     result.rows[k].scheduled_departure,
                                     IntOf(SourceStop(k).departureDelay, 0))
            /\ DelaysFloored(k)

\* C9 amended: in every row the written delays are the delays floor-divided
\* by 60; where the scheduled arrival (departure) is a non-zero time the
\* actual one is that time plus the delay, and where it is 0 or absent both
\* the scheduled and the actual column are empty.
C9_ActualIsScheduledPlusDelay ==
    Processed =>
        \A k \in RowIndices :
            /\ DelaysFloored(k)
            /\ IF IntOf(SourceStop(k).scheduledArrivalTime, 0) # 0
               THEN DiffersBy(result.rows[k].actual_arrival,
                              result.rows[k].scheduled_arrival,
                              IntOf(SourceStop(k).arrivalDelay, 0))
               ELSE /\ result.rows[k].actual_arrival = Blank
                    /\ result.rows[k].scheduled_arrival = Blank
            /\ IF IntOf(SourceStop(k).scheduledDepartureTime, 0) # 0
               THEN DiffersBy(result.rows[k].actual_departure,
                              result.rows[k].scheduled_departure,
                              IntOf(SourceStop(k).departureDelay, 0))
               ELSE /\ result.rows[k].actual_departure = Blank
                    /\ result.rows[k].scheduled_departure = Blank

\* rows for a stop 30 s early at departure and past midnight at arrival, and
\* for a stop without scheduled arrival
C9_Witness ==
    /\ Processed
    /\ \E k \in RowIndices :
          /\ SourceStop(k).departureDelay = Num(-30)
          /\ result.rows[k].departure_delay = -1
          /\ SourceStop(k).scheduledArrivalTime = Num(86399)
    /\ \E k \in RowIndices :
          /\ SourceStop(k).scheduledArrivalTime = Missing
          /\ SourceStop(k).arrivalDelay = Num(120)

=============================================================================
